---- MODULE Spec2Model ----
(***************************************************************************)
(* Model of video_claim_analysis.py: the Timestamp Locator                 *)
(* (extract_timestamps), the Source Fetcher (fetch_source_links) and the   *)
(* Report Builder (generate_final_report) with the module's entry point.   *)
(* A Python str is a sequence of one-character strings.                    *)
(***************************************************************************)
EXTENDS Naturals, Sequences, FiniteSets, TLC

VARIABLES
    pc,               \* position of the running function / of the module body
    transcript,       \* str: the transcript
    claims,           \* str: the ClaimSet (extract_claims' response)
    timestamps,       \* dict keyword -> list of timestamps
    ci,               \* extract_timestamps: claim lines consumed by the outer loop
    keyword,          \* extract_timestamps: the local `keyword` of the last iteration
    first_run,        \* the index an earlier extract_timestamps call returned
    runs,             \* completed extract_timestamps calls on (transcript, claims)
    anchors,          \* fetch_source_links: soup.find_all('a', href=True), as hrefs
    hi,               \* fetch_source_links: anchors consumed by the loop
    links,            \* fetch_source_links: the local `links`
    sources,          \* what fetch_source_links returned (line 67's `sources`)
    verified_claims,  \* generate_final_report: verify_claims' response
    report,           \* generate_final_report: the local `report`
    li,               \* generate_final_report: claim lines consumed by the loop
    final_report,     \* module-level final_report (line 82)
    stdout,           \* what print() wrote (line 83)
    calls,            \* log of the calls started, in order
    exception         \* the uncaught exception, "none" while there is none

vars == <<pc, transcript, claims, timestamps, ci, keyword, first_run, runs, anchors, hi,
          links, sources, verified_claims, report, li, final_report, stdout, calls, exception>>

\* ------------------------------------------------------------------ bounds
MaxClaimLines == 2
MaxTranscriptLines == 2
MaxAnchors == 5

\* ------------------------------------------------------------ Python str
Whitespace == {" ", "\t", "\n", "\r"}
Digits == {"0", "1", "2", "3", "4", "5", "6", "7", "8", "9"}

UpperToLower ==
    ("A" :> "a") @@ ("C" :> "c") @@ ("H" :> "h") @@ ("N" :> "n") @@ ("O" :> "o")
    @@ ("P" :> "p") @@ ("T" :> "t") @@ ("V" :> "v") @@ ("X" :> "x")

\* str.lower(), character by character
LowerChar(c) == IF c \in DOMAIN UpperToLower THEN UpperToLower[c] ELSE c
lower(s) == [i \in 1..Len(s) |-> LowerChar(s[i])]

\* s.split(sep) for a one-character separator: always at least one piece
RECURSIVE SplitFrom(_, _, _, _)
SplitFrom(s, sep, i, cur) ==
    IF i > Len(s) THEN <<cur>>
    ELSE IF s[i] = sep THEN <<cur>> \o SplitFrom(s, sep, i + 1, <<>>)
    ELSE SplitFrom(s, sep, i + 1, Append(cur, s[i]))
split(s, sep) == SplitFrom(s, sep, 1, <<>>)

\* s.split() with no argument: runs of non-whitespace, no empty piece
RECURSIVE WordsFrom(_, _, _)
WordsFrom(s, i, cur) ==
    IF i > Len(s) THEN (IF cur = <<>> THEN <<>> ELSE <<cur>>)
    ELSE IF s[i] \in Whitespace
         THEN (IF cur = <<>> THEN <<>> ELSE <<cur>>) \o WordsFrom(s, i + 1, <<>>)
         ELSE WordsFrom(s, i + 1, Append(cur, s[i]))
split_ws(s) == WordsFrom(s, 1, <<>>)

\* s.strip()
RECURSIVE lstrip(_)
lstrip(s) == IF s # <<>> /\ Head(s) \in Whitespace THEN lstrip(Tail(s)) ELSE s
RECURSIVE rstrip(_)
rstrip(s) ==
    IF s # <<>> /\ s[Len(s)] \in Whitespace THEN rstrip(SubSeq(s, 1, Len(s) - 1)) ELSE s
strip(s) == rstrip(lstrip(s))

\* `sub in s`
Contains(s, sub) ==
    \E off \in 0..(Len(s) - Len(sub)) : SubSeq(s, off + 1, off + Len(sub)) = sub

\* '\n'.join(lines)
RECURSIVE join(_, _)
join(lines, sep) ==
    IF Len(lines) = 0 THEN <<>>
    ELSE IF Len(lines) = 1 THEN lines[1]
    ELSE lines[1] \o <<sep>> \o join(Tail(lines), sep)

\* re.search(r'(\d{2}:\d{2}:\d{2})', line): the leftmost match, <<>> for None
MatchesAt(line, i) ==
    /\ i + 7 <= Len(line)
    /\ line[i] \in Digits /\ line[i + 1] \in Digits /\ line[i + 2] = ":"
    /\ line[i + 3] \in Digits /\ line[i + 4] \in Digits /\ line[i + 5] = ":"
    /\ line[i + 6] \in Digits /\ line[i + 7] \in Digits
RECURSIVE SearchFrom(_, _)
SearchFrom(line, i) ==
    IF i + 7 > Len(line) THEN <<>>
    ELSE IF MatchesAt(line, i) THEN SubSeq(line, i, i + 7)
    ELSE SearchFrom(line, i + 1)
re_search(line) == SearchFrom(line, 1)

\* dict helpers
EmptyDict == [k \in {} |-> <<>>]
DictSet(d, k, v) == [x \in DOMAIN d \cup {k} |-> IF x = k THEN v ELSE d[x]]
DictGet(d, k, default) == IF k \in DOMAIN d THEN d[k] ELSE default

\* --------------------------------------------------- extract_timestamps
\* claim.split(':')[0]; the Mut variant strips it
TopicMutStrip(claim) == strip(split(claim, ":")[1])
Topic(claim) == split(claim, ":")[1]

\* any(word.lower() in line.lower() for word in keyword.split()); the Mut variant
\* is all(...)
AnyWordMutAll(kw, line) ==
    \A n \in 1..Len(split_ws(kw)) : Contains(lower(line), lower(split_ws(kw)[n]))
AnyWordIn(kw, line) ==
    \E n \in 1..Len(split_ws(kw)) : Contains(lower(line), lower(split_ws(kw)[n]))

\* the inner loop (lines 34-38) appending to list `acc`
RECURSIVE ScanLines(_, _, _, _)
ScanLines(kw, tlines, n, acc) ==
    IF n > Len(tlines) THEN acc
    ELSE IF AnyWordIn(kw, tlines[n]) /\ re_search(tlines[n]) # <<>>
         THEN ScanLines(kw, tlines, n + 1, Append(acc, re_search(tlines[n])))
         ELSE ScanLines(kw, tlines, n + 1, acc)

\* one iteration of the outer loop (lines 32-38) on dict ts; the Mut variants keep
\* an existing list instead of resetting it (line 33), and skip blank claim lines
ClaimIterMutNoReset(ts, tr, claim) ==
    DictSet(ts, Topic(claim),
            ScanLines(Topic(claim), split(tr, "\n"), 1, DictGet(ts, Topic(claim), <<>>)))
ClaimIterMutSkipBlank(ts, tr, claim) ==
    IF strip(claim) = <<>> THEN ts
    ELSE DictSet(ts, Topic(claim), ScanLines(Topic(claim), split(tr, "\n"), 1, <<>>))
ClaimIter(ts, tr, claim) ==
    DictSet(ts, Topic(claim), ScanLines(Topic(claim), split(tr, "\n"), 1, <<>>))

\* the whole function (lines 30-39)
RECURSIVE ClaimLoop(_, _, _, _)
ClaimLoop(ts, tr, clines, n) ==
    IF n > Len(clines) THEN ts
    ELSE ClaimLoop(ClaimIter(ts, tr, clines[n]), tr, clines, n + 1)
extract_timestamps(tr, cl) == ClaimLoop(EmptyDict, tr, split(cl, "\n"), 1)

\* --------------------------------------------------- fetch_source_links
HttpStr == <<"h", "t", "t", "p">>
GoogleStr == <<"g", "o", "o", "g", "l", "e">>
TopSources == 3

\* line 51: "http" in href and not "google" in href
Qualifies(href) == Contains(href, HttpStr) /\ ~Contains(href, GoogleStr)

\* lines 50-52: one anchor
LinkIter(ls, href) == IF Qualifies(href) THEN Append(ls, href) ELSE ls

\* line 53: links[:3]; the Mut variant is links[:4]
SliceMutOneMore(ls) == SubSeq(ls, 1, IF Len(ls) < TopSources + 1 THEN Len(ls) ELSE TopSources + 1)
Slice(ls) == SubSeq(ls, 1, IF Len(ls) < TopSources THEN Len(ls) ELSE TopSources)

\* lines 48-53 on the anchors the parsed response holds
RECURSIVE LinkLoop(_, _, _)
LinkLoop(as, n, ls) ==
    IF n > Len(as) THEN ls ELSE LinkLoop(as, n + 1, LinkIter(ls, as[n]))
fetch_source_links(as) == Slice(LinkLoop(as, 1, <<>>))

\* ------------------------------------------------- generate_final_report
NA == <<"N", "/", "A">>
Heading1 == [kind |-> "h1", text |-> "Video Claim Analysis Report"]
Heading2 == [kind |-> "h2", text |-> "Strong Claims and Their Evaluation"]

\* line 65: if claim.strip(); the Mut variant is `if claim`
NeedsSectionMutNoStrip(claim) == claim # <<>>
NeedsSection(claim) == strip(claim) # <<>>

\* lines 66-76: the section appended for a claim line, given the fetched sources;
\* the Mut variants strip the claim line, and put per-claim text in Verification
SectionMutStripped(claim, srcs) ==
    [kind |-> "section", topic |-> Topic(claim), claim |-> strip(claim),
     timestamps |-> DictGet(timestamps, Topic(claim), <<NA>>),
     verification |-> verified_claims, sources |-> srcs]
SectionMutClaimAsVerdict(claim, srcs) ==
    [kind |-> "section", topic |-> Topic(claim), claim |-> claim,
     timestamps |-> DictGet(timestamps, Topic(claim), <<NA>>),
     verification |-> claim, sources |-> srcs]
Section(claim, srcs) ==
    [kind |-> "section", topic |-> Topic(claim), claim |-> claim,
     timestamps |-> DictGet(timestamps, Topic(claim), <<NA>>),
     verification |-> verified_claims, sources |-> srcs]

\* no try/except anywhere: where control goes when a call of `stage` raises; the
\* Mut variant catches a failed fetch inside the loop
AfterRaiseMutIsolateFetch(stage) == IF stage = "fetch_source_links" THEN "sections" ELSE "raised"
AfterRaise(stage) == "raised"

Call(fn, arg) == [fn |-> fn, arg |-> arg]

\* ------------------------------------------------------------ input sets
\* claim lines: "Vax: a", "Vax: b", " co2 ", "", " ", "no Vax:"
ClaimLineChoices ==
    { <<"V", "a", "x", ":", " ", "a">>,
      <<"V", "a", "x", ":", " ", "b">>,
      <<" ", "c", "o", "2", " ">>,
      <<>>,
      <<" ">>,
      <<"n", "o", " ", "V", "a", "x", ":">> }
\* transcript lines: "00:01:15 vax", "no time", "1:00:02:30 CO2 11:22:33", "00:03:00"
TranscriptLineChoices ==
    { <<"0", "0", ":", "0", "1", ":", "1", "5", " ", "v", "a", "x">>,
      <<"n", "o", " ", "t", "i", "m", "e">>,
      <<"1", ":", "0", "0", ":", "0", "2", ":", "3", "0", " ", "C", "O", "2", " ", "1", "1", ":", "2", "2", ":", "3", "3">>,
      <<"0", "0", ":", "0", "3", ":", "0", "0">> }
\* hrefs: "http://who", "https://cdc", "http://google", "/rel", "HTTP://x"
HrefChoices ==
    { <<"h", "t", "t", "p", ":", "/", "/", "w", "h", "o">>,
      <<"h", "t", "t", "p", "s", ":", "/", "/", "c", "d", "c">>,
      <<"h", "t", "t", "p", ":", "/", "/", "g", "o", "o", "g", "l", "e">>,
      <<"/", "r", "e", "l">>,
      <<"H", "T", "T", "P", ":", "/", "/", "x">> }

SeqsUpTo(S, n) == UNION {[1..k -> S] : k \in 1..n}
ClaimSets == {join(ls, "\n") : ls \in SeqsUpTo(ClaimLineChoices, MaxClaimLines)}
Transcripts == {join(ls, "\n") : ls \in SeqsUpTo(TranscriptLineChoices, MaxTranscriptLines)}
\* the pipeline's inputs: transcripts, verifier responses, parsed search responses
PipelineTranscripts ==
    { join(<<<<"0", "0", ":", "0", "1", ":", "1", "5", " ", "v", "a", "x">>, <<"n", "o", " ", "t", "i", "m", "e">>>>, "\n"),
      join(<<<<"1", ":", "0", "0", ":", "0", "2", ":", "3", "0", " ", "C", "O", "2", " ", "1", "1", ":", "2", "2", ":", "3", "3">>, <<"0", "0", ":", "0", "3", ":", "0", "0", " ", "V", "A", "X">>>>, "\n"),
      <<"I", "n", "s", "e", "r", "t", " ", "t", "r", "a", "n", "s", "c", "r", "i", "p", "t", " ", "t", "e", "x", "t", " ", "h", "e", "r", "e">> }
\* verifier responses: "ok", "no"
Verdicts == {<<"o", "k">>, <<"n", "o">>}
PipelineResponses ==
    { <<>>,
      <<<<"h", "t", "t", "p", ":", "/", "/", "g", "o", "o", "g", "l", "e">>, <<"h", "t", "t", "p", "s", ":", "/", "/", "c", "d", "c">>>>,
      <<<<"h", "t", "t", "p", ":", "/", "/", "w", "h", "o">>, <<"h", "t", "t", "p", "s", ":", "/", "/", "c", "d", "c">>, <<"h", "t", "t", "p", ":", "/", "/", "w", "h", "o">>, <<"h", "t", "t", "p", "s", ":", "/", "/", "c", "d", "c">>>> }
AnchorLists == {<<>>} \cup SeqsUpTo(HrefChoices, MaxAnchors)

\* values of the variables a specification does not use
Idle ==
    /\ timestamps = EmptyDict /\ ci = 0 /\ keyword = <<>> /\ first_run = EmptyDict
    /\ runs = 0 /\ anchors = <<>> /\ hi = 0 /\ links = <<>> /\ sources = <<>> /\ verified_claims = <<>>
    /\ report = <<>> /\ li = 0 /\ final_report = <<>> /\ stdout = <<>> /\ calls = <<>>
    /\ exception = "none"

\* ------------------------------- extract_timestamps, one outer iteration a step
LocatorInit ==
    /\ pc = "extract_timestamps"
    /\ transcript \in Transcripts
    /\ claims \in ClaimSets
    /\ Idle

\* lines 31-38: the next claim line of claims.split('\n')
LocatorIter ==
    /\ pc = "extract_timestamps"
    /\ ci < Len(split(claims, "\n"))
    /\ keyword' = Topic(split(claims, "\n")[ci + 1])
    /\ timestamps' = ClaimIter(timestamps, transcript, split(claims, "\n")[ci + 1])
    /\ ci' = ci + 1
    /\ UNCHANGED <<pc, transcript, claims, first_run, runs, anchors, hi, links,
                   sources, verified_claims, report, li, final_report, stdout, calls, exception>>

\* line 39
LocatorReturn ==
    /\ pc = "extract_timestamps"
    /\ ci = Len(split(claims, "\n"))
    /\ pc' = "located"
    /\ runs' = runs + 1
    /\ UNCHANGED <<transcript, claims, timestamps, ci, keyword, first_run, anchors, hi,
                   links, sources, verified_claims, report, li, final_report, stdout, calls, exception>>

\* a second call on the same (transcript, claims): line 30 starts from a new dict
LocatorCallAgain ==
    /\ pc = "located"
    /\ runs = 1
    /\ first_run' = timestamps
    /\ timestamps' = EmptyDict
    /\ ci' = 0
    /\ keyword' = <<>>
    /\ pc' = "extract_timestamps"
    /\ UNCHANGED <<transcript, claims, runs, anchors, hi, links, sources, verified_claims,
                   report, li, final_report, stdout, calls, exception>>

LocatorNext == LocatorIter \/ LocatorReturn \/ LocatorCallAgain
SpecLocator == LocatorInit /\ [][LocatorNext]_vars

\* ----------------------------------------- the locator's contract, stated
\* independently of the loops above
ClaimLines == split(claims, "\n")
TranscriptLines == split(transcript, "\n")

Blank(line) == \A i \in 1..Len(line) : line[i] \in Whitespace
HasColon(line) == \E i \in 1..Len(line) : line[i] = ":"
BeforeColon(line) ==
    IF ~HasColon(line) THEN line
    ELSE LET c == CHOOSE i \in 1..Len(line) :
                      line[i] = ":" /\ \A j \in 1..(i - 1) : line[j] # ":"
         IN  SubSeq(line, 1, c - 1)
Trimmed(line) ==
    IF Blank(line) THEN <<>>
    ELSE LET a == CHOOSE i \in 1..Len(line) :
                      line[i] \notin Whitespace /\ \A j \in 1..(i - 1) : line[j] \in Whitespace
             b == CHOOSE i \in 1..Len(line) :
                      line[i] \notin Whitespace
                      /\ \A j \in (i + 1)..Len(line) : line[j] \in Whitespace
         IN  SubSeq(line, a, b)

\* two digits, colon, two digits, colon, two digits, starting at position i
ShapeAt(line, i) ==
    /\ i + 7 <= Len(line)
    /\ \A j \in {0, 1, 3, 4, 6, 7} : line[i + j] \in Digits
    /\ \A j \in {2, 5} : line[i + j] = ":"
HasShape(line) == \E i \in 1..Len(line) : ShapeAt(line, i)
FirstShape(line) ==
    LET i == CHOOSE i \in 1..Len(line) :
                 ShapeAt(line, i) /\ \A j \in 1..(i - 1) : ~ShapeAt(line, j)
    IN  SubSeq(line, i, i + 7)

\* the whitespace-delimited words of a topic: its maximal whitespace-free runs
TopicWords(topic) ==
    { SubSeq(topic, a, b) : <<a, b>> \in
        { ab \in (1..Len(topic)) \X (1..Len(topic)) :
            /\ ab[1] <= ab[2]
            /\ \A j \in ab[1]..ab[2] : topic[j] \notin Whitespace
            /\ ab[1] = 1 \/ topic[ab[1] - 1] \in Whitespace
            /\ ab[2] = Len(topic) \/ topic[ab[2] + 1] \in Whitespace } }
SubstringCI(line, w) ==
    \E off \in 0..(Len(line) - Len(w)) :
        \A n \in 1..Len(w) : LowerChar(line[off + n]) = LowerChar(w[n])
Contributes(topic, line) ==
    HasShape(line) /\ \E w \in TopicWords(topic) : SubstringCI(line, w)

\* the contributing transcript lines' first matches, in transcript line order
ContributingLines(topic) ==
    LET tl == TranscriptLines IN {n \in 1..Len(tl) : Contributes(topic, tl[n])}
ExpectedTimestamps(topic) ==
    LET tl == TranscriptLines
        idx == ContributingLines(topic)
        nth(k) == CHOOSE n \in idx : Cardinality({m \in idx : m < n}) = k - 1
    IN  [k \in 1..Cardinality(idx) |-> FirstShape(tl[nth(k)])]

\* C1: when extract_timestamps returns, the list of every claim line's Topic holds
\* exactly one timestamp, the first HH:MM:SS match, for each transcript line that has
\* such a match and contains a word of the Topic case-insensitively, in line order,
\* and nothing for any other line.
C1_LocatorContract ==
    pc = "located" =>
        LET cl == ClaimLines
        IN  \A n \in 1..Len(cl) :
                LET topic == BeforeColon(cl[n])
                IN  /\ topic \in DOMAIN timestamps
                    /\ timestamps[topic] = ExpectedTimestamps(topic)

\* a Topic of two words of which only one occurs on a line carrying two matches, a
\* second line carrying a match and no word of the Topic
C1_Witness ==
    /\ pc = "located"
    /\ \E t \in DOMAIN timestamps :
        /\ Cardinality(TopicWords(t)) = 2
        /\ Len(timestamps[t]) = 1
        /\ \E n \in 1..Len(TranscriptLines) :
               HasShape(TranscriptLines[n]) /\ ~Contributes(t, TranscriptLines[n])
    /\ \E t \in DOMAIN timestamps : \E n \in ContributingLines(t) :
           Cardinality({i \in 1..Len(TranscriptLines[n]) : ShapeAt(TranscriptLines[n], i)}) = 2

\* C6 (as claimed): the index has keys only for Topics of non-blank claim lines, and
\* is empty when every claim line is blank.
C6_Original ==
    pc = "located" =>
        /\ \A k \in DOMAIN timestamps :
               \E n \in 1..Len(ClaimLines) :
                   ~Blank(ClaimLines[n]) /\ BeforeColon(ClaimLines[n]) = k
        /\ (\A n \in 1..Len(ClaimLines) : Blank(ClaimLines[n])) => DOMAIN timestamps = {}

\* C6 (amended): the index has a key for the Topic of every line of
\* claims.split('\n'), blank lines included; a blank line's key is the line itself
\* and maps to the empty list; the index is never empty.
C6_KeyPerLine ==
    pc = "located" =>
        /\ DOMAIN timestamps = {BeforeColon(ClaimLines[n]) : n \in 1..Len(ClaimLines)}
        /\ \A n \in 1..Len(ClaimLines) :
               Blank(ClaimLines[n]) =>
                   ClaimLines[n] \in DOMAIN timestamps /\ timestamps[ClaimLines[n]] = <<>>
        /\ DOMAIN timestamps # {}

\* a ClaimSet of blank lines only, one of them empty
C6_Witness ==
    /\ pc = "located"
    /\ \A n \in 1..Len(ClaimLines) : Blank(ClaimLines[n])
    /\ <<>> \in DOMAIN timestamps

\* C7 (as claimed): the Topic of a claim line without a colon is the trimmed line,
\* that of a line with a colon the text before the first colon (stated of the
\* non-blank claim lines only).
C7_Original ==
    (pc = "extract_timestamps" /\ ci >= 1 /\ ~Blank(ClaimLines[ci])) =>
        /\ keyword \in DOMAIN timestamps
        /\ keyword = IF HasColon(ClaimLines[ci]) THEN BeforeColon(ClaimLines[ci])
                     ELSE Trimmed(ClaimLines[ci])

\* C7 (amended): the Topic of a claim line without a colon is the whole line, its
\* leading and trailing whitespace kept; that of a line with a colon is the text
\* before the first colon; the Topic is the key stored.
C7_TopicUntrimmed ==
    (pc = "extract_timestamps" /\ ci >= 1) =>
        /\ keyword \in DOMAIN timestamps
        /\ keyword = IF HasColon(ClaimLines[ci]) THEN BeforeColon(ClaimLines[ci])
                     ELSE ClaimLines[ci]

\* a line without a colon that trimming would change
C7_Witness ==
    /\ pc = "extract_timestamps" /\ ci >= 1
    /\ ~HasColon(ClaimLines[ci])
    /\ ~Blank(ClaimLines[ci])
    /\ Trimmed(ClaimLines[ci]) # ClaimLines[ci]
    /\ keyword = ClaimLines[ci]

FetchInit ==
    /\ pc = "fetch_source_links"
    /\ transcript = <<>>
    /\ claims = <<>>
    /\ Idle

\* lines 45-46: the response arrives and is parsed
FetchResponse ==
    /\ pc = "fetch_source_links"
    /\ \E as \in AnchorLists : anchors' = as
    /\ hi' = 0
    /\ links' = <<>>
    /\ pc' = "anchors"
    /\ UNCHANGED <<transcript, claims, timestamps, ci, keyword, first_run, runs, sources,
                   verified_claims, report, li, final_report, stdout, calls, exception>>

\* lines 49-52
FetchIter ==
    /\ pc = "anchors"
    /\ hi < Len(anchors)
    /\ links' = LinkIter(links, anchors[hi + 1])
    /\ hi' = hi + 1
    /\ UNCHANGED <<pc, transcript, claims, timestamps, ci, keyword, first_run, runs,
                   anchors, sources, verified_claims, report, li, final_report, stdout,
                   calls, exception>>

\* line 53
FetchReturn ==
    /\ pc = "anchors"
    /\ hi = Len(anchors)
    /\ sources' = Slice(links)
    /\ pc' = "fetched"
    /\ UNCHANGED <<transcript, claims, timestamps, ci, keyword, first_run, runs, anchors,
                   hi, links, verified_claims, report, li, final_report, stdout, calls, exception>>

FetchNext == FetchResponse \/ FetchIter \/ FetchReturn
SpecFetch == FetchInit /\ [][FetchNext]_vars

\* the fetcher's contract, stated independently of the loop
HasSubstring(s, sub) ==
    \E off \in 0..(Len(s) - Len(sub)) : \A n \in 1..Len(sub) : s[off + n] = sub[n]
QualifyingAnchors ==
    {n \in 1..Len(anchors) :
        HasSubstring(anchors[n], HttpStr) /\ ~HasSubstring(anchors[n], GoogleStr)}

\* C5: fetch_source_links returns the first three (all, if fewer) of the hrefs that
\* contain "http" and do not contain "google", in document order: never more than 3
\* entries, none with "google", none without "http", the empty sequence when no href
\* qualifies.
C5_FirstThreeQualifying ==
    pc = "fetched" =>
        LET q == QualifyingAnchors
            nth(k) == CHOOSE n \in q : Cardinality({m \in q : m < n}) = k - 1
        IN  /\ Len(sources) <= 3
            /\ \A k \in 1..Len(sources) :
                   HasSubstring(sources[k], HttpStr) /\ ~HasSubstring(sources[k], GoogleStr)
            /\ sources = [k \in 1..(IF Cardinality(q) < 3 THEN Cardinality(q) ELSE 3)
                              |-> anchors[nth(k)]]
            /\ q = {} => sources = <<>>

\* four qualifying hrefs behind one that has both "http" and "google"
C5_Witness ==
    /\ pc = "fetched"
    /\ Cardinality(QualifyingAnchors) = 4
    /\ HasSubstring(anchors[1], HttpStr) /\ HasSubstring(anchors[1], GoogleStr)
    /\ Len(sources) = 3

\* ------------------- generate_final_report and the module body (lines 55-83)
Init ==
    /\ pc = "extract_claims"
    /\ transcript \in PipelineTranscripts
    /\ claims = <<>>
    /\ Idle

\* line 57, the call returning a response
ExtractClaims ==
    /\ pc = "extract_claims"
    /\ calls' = Append(calls, Call("extract_claims", transcript))
    /\ \E c \in ClaimSets : claims' = c
    /\ pc' = "verify_claims"
    /\ UNCHANGED <<transcript, timestamps, ci, keyword, first_run, runs, anchors, hi,
                   links, sources, verified_claims, report, li, final_report, stdout,
                   exception>>

\* line 57, the call raising (lines 14-15)
ExtractClaimsRaise ==
    /\ pc = "extract_claims"
    /\ calls' = Append(calls, Call("extract_claims", transcript))
    /\ exception' = "ProviderError"
    /\ pc' = AfterRaise("extract_claims")
    /\ UNCHANGED <<transcript, claims, timestamps, ci, keyword, first_run, runs, anchors,
                   hi, links, sources, verified_claims, report, li, final_report, stdout>>

\* line 58, the call returning a response
VerifyClaims ==
    /\ pc = "verify_claims"
    /\ calls' = Append(calls, Call("verify_claims", claims))
    /\ \E v \in Verdicts : verified_claims' = v
    /\ pc' = "locate"
    /\ UNCHANGED <<transcript, claims, timestamps, ci, keyword, first_run, runs, anchors,
                   hi, links, sources, report, li, final_report, stdout, exception>>

\* line 58, the call raising (lines 25-26)
VerifyClaimsRaise ==
    /\ pc = "verify_claims"
    /\ calls' = Append(calls, Call("verify_claims", claims))
    /\ exception' = "ProviderError"
    /\ pc' = AfterRaise("verify_claims")
    /\ UNCHANGED <<transcript, claims, timestamps, ci, keyword, first_run, runs, anchors,
                   hi, links, sources, verified_claims, report, li, final_report, stdout>>

\* lines 59-62
LocateTimestamps ==
    /\ pc = "locate"
    /\ calls' = Append(calls, Call("extract_timestamps", <<transcript, claims>>))
    /\ timestamps' = extract_timestamps(transcript, claims)
    /\ report' = <<Heading1, Heading2>>
    /\ li' = 0
    /\ pc' = "sections"
    /\ UNCHANGED <<transcript, claims, ci, keyword, first_run, runs, anchors, hi, links,
                   sources, verified_claims, final_report, stdout, exception>>

\* lines 64-65, a claim line that gets no section
SkipClaimLine ==
    /\ pc = "sections"
    /\ li < Len(split(claims, "\n"))
    /\ ~NeedsSection(split(claims, "\n")[li + 1])
    /\ li' = li + 1
    /\ UNCHANGED <<pc, transcript, claims, timestamps, ci, keyword, first_run, runs,
                   anchors, hi, links, sources, verified_claims, report, final_report,
                   stdout, calls, exception>>

\* lines 64-76, the fetch returning
BuildSection ==
    /\ pc = "sections"
    /\ li < Len(split(claims, "\n"))
    /\ NeedsSection(split(claims, "\n")[li + 1])
    /\ calls' = Append(calls, Call("fetch_source_links", Topic(split(claims, "\n")[li + 1])))
    /\ \E as \in PipelineResponses :
        /\ sources' = fetch_source_links(as)
        /\ report' = Append(report, Section(split(claims, "\n")[li + 1], fetch_source_links(as)))
    /\ li' = li + 1
    /\ UNCHANGED <<pc, transcript, claims, timestamps, ci, keyword, first_run, runs,
                   anchors, hi, links, verified_claims, final_report, stdout, exception>>

\* lines 64-67, the fetch raising (line 45)
BuildSectionRaise ==
    /\ pc = "sections"
    /\ li < Len(split(claims, "\n"))
    /\ NeedsSection(split(claims, "\n")[li + 1])
    /\ calls' = Append(calls, Call("fetch_source_links", Topic(split(claims, "\n")[li + 1])))
    /\ exception' = "NetworkError"
    /\ pc' = AfterRaise("fetch_source_links")
    /\ UNCHANGED <<transcript, claims, timestamps, ci, keyword, first_run, runs, anchors,
                   hi, links, sources, verified_claims, report, li, final_report, stdout>>

\* lines 78 and 82
ReturnReport ==
    /\ pc = "sections"
    /\ li = Len(split(claims, "\n"))
    /\ final_report' = report
    /\ pc' = "returned"
    /\ UNCHANGED <<transcript, claims, timestamps, ci, keyword, first_run, runs, anchors,
                   hi, links, sources, verified_claims, report, li, stdout, calls,
                   exception>>

\* line 83
PrintReport ==
    /\ pc = "returned"
    /\ stdout' = final_report
    /\ pc' = "done"
    /\ UNCHANGED <<transcript, claims, timestamps, ci, keyword, first_run, runs, anchors,
                   hi, links, sources, verified_claims, report, li, final_report, calls,
                   exception>>

Next ==
    \/ ExtractClaims \/ ExtractClaimsRaise
    \/ VerifyClaims \/ VerifyClaimsRaise
    \/ LocateTimestamps
    \/ SkipClaimLine \/ BuildSection \/ BuildSectionRaise
    \/ ReturnReport \/ PrintReport
Spec == Init /\ [][Next]_vars

\* ------------------------------------------ the pipeline's contract, stated
\* independently of the loop above
NonBlank == LET cl == ClaimLines IN {n \in 1..Len(cl) : ~Blank(cl[n])}
\* the non-blank claim lines, in line order
NonBlankLines ==
    LET cl == ClaimLines
        nb == NonBlank
        nth(k) == CHOOSE n \in nb : Cardinality({m \in nb : m < n}) = k - 1
    IN  [k \in 1..Cardinality(nb) |-> cl[nth(k)]]
Finished == pc \in {"returned", "done"}
CountCalls(fn) == Cardinality({i \in 1..Len(calls) : calls[i].fn = fn})
ExpectedCalls ==
    << Call("extract_claims", transcript),
       Call("verify_claims", claims),
       Call("extract_timestamps", <<transcript, claims>>) >>
    \o LET nbl == NonBlankLines
       IN  [k \in 1..Len(nbl) |-> Call("fetch_source_links", BeforeColon(nbl[k]))]

\* C2 (as claimed): a section's Timestamps field shows the placeholder N/A when no
\* transcript line contributed a timestamp to its Topic, and the Topic's list
\* otherwise.
C2_Original ==
    Finished =>
        \A k \in 3..Len(final_report) :
            final_report[k].timestamps =
                IF ExpectedTimestamps(final_report[k].topic) = <<>>
                THEN <<NA>>
                ELSE ExpectedTimestamps(final_report[k].topic)

\* C3: the calls made are, in order, one extract_claims, one verify_claims on the
\* extractor's whole output, extract_timestamps, then one fetch_source_links per
\* non-blank claim line in line order; at every moment the calls so far are a prefix
\* of that sequence, and a successful run has made all of them.
C3_CallOrder ==
    LET expected == ExpectedCalls
    IN  /\ Len(calls) <= Len(expected)
        /\ \A i \in 1..Len(calls) : calls[i] = expected[i]
        /\ Finished => Len(calls) = Len(expected) /\ exception = "none"

\* a successful run over two claim lines of one Topic: two fetches of that Topic
C3_Witness ==
    /\ pc = "done"
    /\ Len(calls) = 5
    /\ calls[4] = calls[5]
    /\ ClaimLines[1] # ClaimLines[2]

\* C4: once a call has raised, the run is over: no later stage, fetch or retry can
\* start, nothing was returned and nothing is printed, the sections built so far
\* included; the raising call is the last call made.
C4_AllOrNothing ==
    /\ exception # "none" =>
        /\ pc = "raised"
        /\ ~ENABLED Next
        /\ final_report = <<>>
        /\ stdout = <<>>
        /\ Len(calls) <= Len(ExpectedCalls)
        /\ calls[Len(calls)].fn =
               IF exception = "NetworkError" THEN "fetch_source_links"
               ELSE IF Len(calls) = 1 THEN "extract_claims" ELSE "verify_claims"
        /\ CountCalls("extract_claims") = 1 /\ CountCalls("verify_claims") <= 1
    /\ stdout # <<>> => exception = "none" /\ pc = "done"

\* the fetch for the second claim line raises after the first line's section is built
C4_Witness ==
    /\ exception = "NetworkError"
    /\ Len(report) = 3
    /\ report[3].kind = "section"
    /\ stdout = <<>>

\* C8: the returned report is the two headings followed by one section per non-blank
\* claim line, in line order, each with that line verbatim as its Claim field; blank
\* lines add no section and no fetch, so a ClaimSet without a non-blank line gives
\* the two headings alone; the report is what gets printed.
C8_SectionPerNonBlankLine ==
    Finished =>
        LET nbl == NonBlankLines
        IN  /\ Len(final_report) = 2 + Len(nbl)
            /\ final_report[1] = Heading1 /\ final_report[2] = Heading2
            /\ \A k \in 1..Len(nbl) :
                   /\ final_report[2 + k].kind = "section"
                   /\ final_report[2 + k].claim = nbl[k]
            /\ CountCalls("fetch_source_links") = Len(nbl)
            /\ nbl = <<>> => final_report = <<Heading1, Heading2>>
            /\ pc = "done" => stdout = final_report

\* a whitespace-only line before a claim line with surrounding whitespace
C8_Witness ==
    /\ pc = "done"
    /\ Len(ClaimLines) = 2
    /\ Blank(ClaimLines[1]) /\ ClaimLines[1] # <<>>
    /\ Trimmed(ClaimLines[2]) # ClaimLines[2]
    /\ Len(stdout) = 3
    /\ stdout[3].claim = ClaimLines[2]

\* C9: every section built carries the same Verification text, the response of the
\* one verify_claims call, which was made on the whole ClaimSet; the verifier is not
\* called again while sections are built.
C9_SameVerification ==
    /\ \A j, k \in 3..Len(report) : report[j].verification = report[k].verification
    /\ \A k \in 3..Len(report) : report[k].verification = verified_claims
    /\ CountCalls("verify_claims") <= 1
    /\ Finished =>
        /\ final_report = report
        /\ CountCalls("verify_claims") = 1
        /\ calls[2] = Call("verify_claims", claims)

\* a returned report with two sections of different claim lines
C9_Witness ==
    /\ Finished
    /\ Len(final_report) = 4
    /\ final_report[3].claim # final_report[4].claim
    /\ final_report[3].verification = final_report[4].verification
    /\ verified_claims # <<>>

====
